---- MODULE Spec2Model ----
(***************************************************************************)
(* Wanderer Albay guide: the OTP signup flow (send-otp edge function,      *)
(* Signup and VerifyOTP pages), the Itinerary page, and the preference     *)
(* scorers of RecommendedSpots and PersonalizedFeed.                        *)
(*                                                                         *)
(* Asynchronous handlers are split at their awaits: one action per backend *)
(* call, taken at the moment the backend executes it, together with the    *)
(* synchronous code that follows it up to the next await.                  *)
(***************************************************************************)
EXTENDS Integers, Sequences, FiniteSets, TLC

VARIABLES
  temp_otps,   \* table temp_otps: set of rows
  nextId,      \* next row id of temp_otps
  users,       \* auth.users: set of [email, phone]
  now,         \* wall clock, in milliseconds
  req,         \* send-otp invocations, one record per slot
  tab,         \* browser tabs: page, sessionStorage, component state
  itineraries,    \* table itineraries, in order of creation
  preferences,    \* the signed-in user's preferences (profiles.user_preferences)
  page,           \* the Itinerary page: route, session, component state
  recommended,    \* the RecommendedSpots component
  feed,           \* the PersonalizedFeed component
  calls,          \* addToItinerary invocations in flight
  notice          \* what the last step showed: failed call, toast, console

otpVars == <<temp_otps, nextId, users, now, req, tab>>

planVars == <<itineraries, preferences, page, recommended, feed,
              calls, notice>>

vars == <<otpVars, planVars>>

(***************************************************************************)
(* Bounds of the model                                                      *)
(***************************************************************************)
NumTabs == 2
NumReqs == 2
MaxRows == 2
MaxTime == 600000
TickMs == 300000

Tabs == 1..NumTabs
Reqs == 1..NumReqs

(***************************************************************************)
(* Strings that the code inspects character by character are sequences of  *)
(* one-character strings.                                                   *)
(***************************************************************************)
EmailA   == <<"a", "@", "b", ".", "c">>
EmailB   == <<"d", "@", "b", ".", "c">>
BadEmail == <<"a", "@", "b">>
PhoneOK  == <<"+", "6", "3", "9", "1", "7", "1", "2", "3", "4", "5", "6", "7">>
NoContact == <<>>

Digits == {"0", "1", "2", "3", "4", "5", "6", "7", "8", "9"}

\* /^[^\s@]+@[^\s@]+\.[^\s@]+$/
emailRegex(s) ==
  \E i \in 1..Len(s) :
    /\ s[i] = "@"
    /\ i > 1
    /\ \A k \in (1..Len(s)) \ {i} : s[k] \notin {"@", " "}
    /\ \E j \in (i + 2)..(Len(s) - 1) : s[j] = "."

\* /^\+63[0-9]{10}$/
phoneRegex(s) ==
  /\ Len(s) = 13
  /\ s[1] = "+" /\ s[2] = "6" /\ s[3] = "3"
  /\ \A k \in 4..13 : s[k] \in Digits

\* Math.floor(100000 + Math.random() * 900000).toString(): six digits
Codes == {"111111", "222222"}
\* what a user can type into the InputOTP field
TypedCodes == Codes \cup {"11111"}

\* the suffix of `${signupData.contact}@placeholder.com`
Placeholder == <<"@", "p", "l", "a", "c", "e", "h", "o", "l", "d", "e", "r", ".", "c", "o", "m">>

NoRow == [id |-> 0, contact |-> NoContact, otp_code |-> "", verified |-> FALSE,
          created_at |-> 0]
NoData == [contact |-> NoContact, contactType |-> "none"]

IdleReq == [pc |-> "idle", method |-> "", contact |-> NoContact, contactType |-> "",
            otpCode |-> "", owner |-> 0, status |-> 0, body |-> "none", log |-> <<>>]

IdleTab == [page |-> "signup", storage |-> NoData, signupData |-> NoData,
            pc |-> "idle", rq |-> 0, form |-> NoData, otp |-> "", otpData |-> NoRow,
            replay |-> FALSE, toast |-> "none"]

(***************************************************************************)
(* supabase/functions/send-otp/index.ts                                    *)
(***************************************************************************)

\* the input checks of the handler
validInput(contact, contactType) ==
  /\ contact # NoContact
  /\ contactType # ""
  /\ (contactType = "email") => emailRegex(contact)
  /\ (contactType = "phone") => phoneRegex(contact)

\* mutant: the email goes out before the row is stored
handlerOrder_emailFirst == <<"listUsers", "delete", "send", "insert">>

\* the backend calls of the handler, in the order the code awaits them
handlerOrder == <<"listUsers", "delete", "insert", "send">>

StepIndex(step) == CHOOSE i \in 1..Len(handlerOrder) : handlerOrder[i] = step

\* mutant: the error responses leave out the status, which then is 200
Respond_noStatus(r, st, bd, event) ==
  [r EXCEPT !.pc = "done", !.status = 200, !.body = bd, !.log = @ \o <<event>>]

\* mutant: a failed insert or send is tried once more before giving up
Respond_retry(r, st, bd, event) ==
  IF event \in {"dbError", "emailError"} /\ \A i \in 1..Len(r.log) : r.log[i] # event
  THEN [r EXCEPT !.log = @ \o <<event>>]
  ELSE [r EXCEPT !.pc = "done", !.status = st, !.body = bd, !.log = @ \o <<event>>]

\* an early return or a throw caught at the end of the handler
Respond(r, st, bd, event) ==
  [r EXCEPT !.pc = "done", !.status = st, !.body = bd, !.log = @ \o <<event>>]

\* a step that succeeded: go on to the next await, or answer 200 after the last
Advance(r, step, events) ==
  IF StepIndex(step) = Len(handlerOrder)
  THEN [r EXCEPT !.pc = "done", !.status = 200, !.body = "success",
                 !.log = @ \o events]
  ELSE [r EXCEPT !.pc = handlerOrder[StepIndex(step) + 1], !.log = @ \o events]

\* the request arrives: preflight, req.json(), validation
receive(method, contact, contactType, owner) ==
  IF method = "OPTIONS"
  THEN [IdleReq EXCEPT !.pc = "done", !.method = method, !.owner = owner,
                       !.status = 200]
  ELSE LET base == [IdleReq EXCEPT !.method = method, !.contact = contact,
                                   !.contactType = contactType, !.owner = owner]
       IN IF validInput(contact, contactType)
          THEN [base EXCEPT !.pc = handlerOrder[1], !.log = <<"validate">>]
          ELSE [base EXCEPT !.pc = "done", !.status = 500, !.body = "error",
                            !.log = <<"invalid">>]

\* mutant: only the email of an account is compared
userExists_emailOnly(contact) ==
  \E u \in users : u.email = contact

\* users.some(user => user.email === contact || user.phone === contact)
userExists(contact) ==
  \E u \in users : u.email = contact \/ u.phone = contact

\* auth.admin.listUsers(), the existing-account check, the code generation
handler_listUsers(r) ==
  /\ req[r].pc = "listUsers"
  /\ IF userExists(req[r].contact)
     THEN req' = [req EXCEPT ![r] = Respond(@, 400, "error", "userExists")]
     ELSE \E code \in Codes :
            req' = [req EXCEPT ![r] =
                      Advance([@ EXCEPT !.otpCode = code], "listUsers", <<"generate">>)]
  /\ UNCHANGED <<temp_otps, nextId, users, now, tab, planVars>>

\* the unverified rows temp_otps holds for a contact
Unverified(contact) ==
  {row \in temp_otps : row.contact = contact /\ row.verified = FALSE}

\* delete().eq('contact', contact).eq('verified', false); its result is not read
handler_delete(r) ==
  /\ req[r].pc = "delete"
  /\ temp_otps' = temp_otps \ Unverified(req[r].contact)
  /\ req' = [req EXCEPT ![r] =
               Advance(@, "delete",
                       IF Unverified(req[r].contact) # {}
                       THEN <<"delete", "removed">> ELSE <<"delete">>)]
  /\ UNCHANGED <<nextId, users, now, tab, planVars>>

\* insert({contact, otp_code, verified: false}); dbError throws
handler_insert(r) ==
  /\ req[r].pc = "insert"
  /\ \/ /\ nextId <= MaxRows
        /\ temp_otps' = temp_otps \cup
             {[id |-> nextId, contact |-> req[r].contact,
               otp_code |-> req[r].otpCode, verified |-> FALSE,
               created_at |-> now]}
        /\ nextId' = nextId + 1
        /\ req' = [req EXCEPT ![r] = Advance(@, "insert", <<"store">>)]
     \/ /\ req' = [req EXCEPT ![r] = Respond(@, 500, "error", "dbError")]
        /\ UNCHANGED <<temp_otps, nextId>>
  /\ UNCHANGED <<users, now, tab, planVars>>

\* resend.emails.send for email, the SMS refusal for phone, nothing otherwise
handler_send(r) ==
  /\ req[r].pc = "send"
  /\ IF req[r].contactType = "email"
     THEN \/ req' = [req EXCEPT ![r] = Advance(@, "send", <<"email">>)]
          \/ req' = [req EXCEPT ![r] = Respond(@, 500, "error", "emailError")]
     ELSE IF req[r].contactType = "phone"
          THEN req' = [req EXCEPT ![r] = Respond(@, 400, "error", "sms")]
          ELSE req' = [req EXCEPT ![r] = Advance(@, "send", <<>>)]
  /\ UNCHANGED <<temp_otps, nextId, users, now, tab, planVars>>

\* the invocation that takes a new request: the lowest free slot
FreeSlot ==
  {r \in Reqs : req[r].pc = "idle" /\ \A q \in 1..(r - 1) : req[q].pc # "idle"}

\* a caller other than the two pages: the function is a public HTTP endpoint
DirectInputs ==
  { <<"OPTIONS", NoContact, "">>,
    <<"POST", NoContact, "email">>,
    <<"POST", EmailA, "">>,
    <<"POST", EmailA, "sms">> }

serve(r) ==
  /\ r \in FreeSlot
  /\ \E inp \in DirectInputs :
       req' = [req EXCEPT ![r] = receive(inp[1], inp[2], inp[3], 0)]
  /\ UNCHANGED <<temp_otps, nextId, users, now, tab, planVars>>

\* such a caller takes its response
serve_response(r) ==
  /\ req[r].pc = "done"
  /\ req[r].owner = 0
  /\ req' = [req EXCEPT ![r] = IdleReq]
  /\ UNCHANGED <<temp_otps, nextId, users, now, tab, planVars>>

\* Response.ok
ok(r) == r.status >= 200 /\ r.status <= 299

(***************************************************************************)
(* src/pages/Signup.tsx                                                    *)
(***************************************************************************)
GoodForm(c, ct) == [contact |-> c, contactType |-> ct, password |-> "hunter22",
                     confirmPassword |-> "hunter22", fullName |-> "Al"]
\* forms that fail signupSchema: short password, mismatch, short name, no contact
BadForms ==
  { [GoodForm(EmailA, "email") EXCEPT !.password = "abc", !.confirmPassword = "abc"],
    [GoodForm(EmailA, "email") EXCEPT !.confirmPassword = "hunter23"],
    [GoodForm(EmailA, "email") EXCEPT !.fullName = "A"],
    GoodForm(NoContact, "email") }
\* every kind of form the Signup page can submit
Forms ==
  {GoodForm(c, ct) : c \in {EmailA, BadEmail, PhoneOK}, ct \in {"email", "phone"}}
    \cup BadForms
\* the forms of the verification runs: two email signups
EmailForms ==
  {GoodForm(EmailA, "email"), GoodForm(EmailB, "email")}

signupSchema(f) ==
  /\ Len(f.contact) >= 1
  /\ Len(f.password) >= 6
  /\ Len(f.fullName) >= 2
  /\ f.password = f.confirmPassword

\* the submit handler up to its fetch
handleSubmit(t, F) ==
  /\ tab[t].page = "signup"
  /\ tab[t].pc = "idle"
  /\ \E f \in F :
       IF signupSchema(f)
       THEN \E r \in FreeSlot :
              /\ req' = [req EXCEPT ![r] = receive("POST", f.contact, f.contactType, t)]
              /\ tab' = [tab EXCEPT ![t] =
                   [@ EXCEPT !.pc = "submitting", !.rq = r,
                             !.form = [contact |-> f.contact,
                                       contactType |-> f.contactType]]]
       ELSE /\ tab' = [tab EXCEPT ![t] =
                   [@ EXCEPT !.toast = "ZodError"]]
            /\ UNCHANGED req
  /\ UNCHANGED <<temp_otps, nextId, users, now, planVars>>

\* mutant: signup_data is written whatever the response says
submitOutcome_storeFirst(tb, resp) ==
  IF ok(resp)
  THEN [tb EXCEPT !.pc = "idle", !.rq = 0, !.form = NoData,
                  !.storage = tb.form, !.signupData = tb.form,
                  !.page = "verify", !.toast = "Verification code sent"]
  ELSE [tb EXCEPT !.pc = "idle", !.rq = 0, !.form = NoData,
                  !.storage = tb.form,
                  !.toast = "Failed to send OTP"]

\* what handleSubmit does with the response
submitOutcome(tb, resp) ==
  IF ok(resp)
  THEN [tb EXCEPT !.pc = "idle", !.rq = 0, !.form = NoData,
                  !.storage = tb.form, !.signupData = tb.form,
                  !.page = "verify", !.toast = "Verification code sent"]
  ELSE [tb EXCEPT !.pc = "idle", !.rq = 0, !.form = NoData,
                  !.toast = "Failed to send OTP"]

\* the response arrives: store signup_data and go to /verify-otp, or toast
handleSubmit_response(t) ==
  /\ tab[t].pc = "submitting"
  /\ req[tab[t].rq].pc = "done"
  /\ tab' = [tab EXCEPT ![t] = submitOutcome(@, req[tab[t].rq])]
  /\ req' = [req EXCEPT ![tab[t].rq] = IdleReq]
  /\ UNCHANGED <<temp_otps, nextId, users, now, planVars>>

(***************************************************************************)
(* src/pages/VerifyOTP.tsx                                                 *)
(***************************************************************************)
ExpiryMinutes == 5

\* /verify-otp opened without going through Signup: the mount effect
VerifyOTP_mount(t) ==
  /\ tab[t].page = "signup"
  /\ tab[t].pc = "idle"
  /\ tab' = [tab EXCEPT ![t] =
       IF @.storage = NoData
       THEN [@ EXCEPT !.toast = "No signup data found", !.page = "signup"]
       ELSE [@ EXCEPT !.signupData = @.storage, !.page = "verify"]]
  /\ UNCHANGED <<temp_otps, nextId, users, now, req, planVars>>

\* History, for the statement that a code works once: whether, when the user
\* asks for the verification, the code has already verified this contact.
usedBefore(contact, code) ==
  \E row \in temp_otps :
    row.contact = contact /\ row.otp_code = code /\ row.verified

\* the length check and setIsVerifying(true)
handleVerifyOTP(t) ==
  /\ tab[t].page = "verify"
  /\ tab[t].pc = "idle"
  /\ \E code \in TypedCodes :
       tab' = [tab EXCEPT ![t] =
         IF Len(code) # 6
         THEN [@ EXCEPT !.toast = "Please enter a 6-digit code"]
         ELSE [@ EXCEPT !.otp = code, !.pc = "select",
                        !.replay = usedBefore(tab[t].signupData.contact, code)]]
  /\ UNCHANGED <<temp_otps, nextId, users, now, req, planVars>>

\* mutant: the lookup forgets .eq('contact', signupData.contact)
selectOtp_anyContact(contact, code) ==
  {row \in temp_otps : row.otp_code = code}

\* from('temp_otps').select('*').eq('contact', ..).eq('otp_code', ..)
selectOtp(contact, code) ==
  {row \in temp_otps : row.contact = contact /\ row.otp_code = code}

\* the catch and finally blocks: toast.error(error.message), setIsVerifying(false)
verifyFailed(tb, message) ==
  [tb EXCEPT !.pc = "idle", !.otp = "", !.otpData = NoRow, !.replay = FALSE,
             !.toast = message]

\* .single() and the otpError || !otpData test
handleVerifyOTP_select(t) ==
  /\ tab[t].pc = "select"
  /\ LET rows == selectOtp(tab[t].signupData.contact, tab[t].otp)
     IN \/ /\ Cardinality(rows) = 1
           /\ tab' = [tab EXCEPT ![t] =
                [@ EXCEPT !.otpData = CHOOSE row \in rows : TRUE,
                          !.pc = "signUp"]]
        \/ /\ Cardinality(rows) # 1
           /\ tab' = [tab EXCEPT ![t] = verifyFailed(@, "Invalid verification code")]
  /\ UNCHANGED <<temp_otps, nextId, users, now, req, planVars>>

\* mutant: a code exactly five minutes old is refused
expired_atFive(createdAt, nowTime) ==
  (nowTime - createdAt) >= ExpiryMinutes * (1000 * 60)

\* diffMinutes = (now - createdAt) / (1000 * 60) > 5
expired(createdAt, nowTime) == (nowTime - createdAt) > ExpiryMinutes * (1000 * 60)

signUpEmail(sd) ==
  IF sd.contactType = "email" THEN sd.contact ELSE sd.contact \o Placeholder

\* The expiry check, then supabase.auth.signUp.  The auth service answers a
\* new email with the new user or an error, and an email it already holds
\* with an error or (when it hides existing accounts) with a user object
\* and no error.
handleVerifyOTP_signUp(t) ==
  /\ tab[t].pc = "signUp"
  /\ IF expired(tab[t].otpData.created_at, now)
     THEN /\ tab' = [tab EXCEPT ![t] =
                 verifyFailed(@, "Verification code has expired")]
          /\ UNCHANGED users
     ELSE LET email == signUpEmail(tab[t].signupData)
          IN \/ /\ \A u \in users : u.email # email
                /\ users' = users \cup {[email |-> email, phone |-> NoContact]}
                /\ tab' = [tab EXCEPT ![t] = [@ EXCEPT !.pc = "update"]]
             \/ /\ \E u \in users : u.email = email
                /\ tab' = [tab EXCEPT ![t] = [@ EXCEPT !.pc = "update"]]
                /\ UNCHANGED users
             \/ /\ tab' = [tab EXCEPT ![t] = verifyFailed(@, "authError")]
                /\ UNCHANGED users
  /\ UNCHANGED <<temp_otps, nextId, now, req, planVars>>

\* update({verified: true}).eq('id', otpData.id); removeItem; navigate
handleVerifyOTP_update(t) ==
  /\ tab[t].pc = "update"
  /\ temp_otps' = {IF row.id = tab[t].otpData.id
                   THEN [row EXCEPT !.verified = TRUE] ELSE row : row \in temp_otps}
  /\ tab' = [tab EXCEPT ![t] =
       [@ EXCEPT !.pc = "idle", !.otp = "", !.otpData = NoRow,
                 !.replay = FALSE, !.storage = NoData, !.signupData = NoData,
                 !.page = "dashboard", !.toast = "Account created successfully!"]]
  /\ UNCHANGED <<nextId, users, now, req, planVars>>

\* the resend handler up to its fetch
handleResendOTP(t) ==
  /\ tab[t].page = "verify"
  /\ tab[t].pc = "idle"
  /\ \E r \in FreeSlot :
       /\ req' = [req EXCEPT ![r] =
            receive("POST", tab[t].signupData.contact,
                    tab[t].signupData.contactType, t)]
       /\ tab' = [tab EXCEPT ![t] =
            [@ EXCEPT !.pc = "resending", !.rq = r]]
  /\ UNCHANGED <<temp_otps, nextId, users, now, planVars>>

\* what handleResendOTP does with the response
resendOutcome(tb, resp) ==
  IF ok(resp)
  THEN [tb EXCEPT !.pc = "idle", !.rq = 0, !.otp = "",
                  !.toast = "New verification code sent!"]
  ELSE [tb EXCEPT !.pc = "idle", !.rq = 0, !.toast = "Failed to resend OTP"]

handleResendOTP_response(t) ==
  /\ tab[t].pc = "resending"
  /\ req[tab[t].rq].pc = "done"
  /\ tab' = [tab EXCEPT ![t] = resendOutcome(@, req[tab[t].rq])]
  /\ req' = [req EXCEPT ![tab[t].rq] = IdleReq]
  /\ UNCHANGED <<temp_otps, nextId, users, now, planVars>>

\* the Back to Sign Up button
backToSignUp(t) ==
  /\ tab[t].page = "verify"
  /\ tab[t].pc = "idle"
  /\ tab' = [tab EXCEPT ![t] =
       [@ EXCEPT !.storage = NoData, !.signupData = NoData, !.page = "signup"]]
  /\ UNCHANGED <<temp_otps, nextId, users, now, req, planVars>>

\* time passes
Tick ==
  /\ now + TickMs <= MaxTime
  /\ now' = now + TickMs
  /\ UNCHANGED <<temp_otps, nextId, users, req, tab, planVars>>

(***************************************************************************)
(* Strings of the catalogue and of the preferences                         *)
(***************************************************************************)
Upper == <<"A", "B", "C", "D", "E", "F", "G", "H", "I", "J", "K", "L", "M", "N", "O", "P", "Q", "R", "S", "T", "U", "V", "W", "X", "Y", "Z">>
Lower == <<"a", "b", "c", "d", "e", "f", "g", "h", "i", "j", "k", "l", "m", "n", "o", "p", "q", "r", "s", "t", "u", "v", "w", "x", "y", "z">>

\* String.prototype.toLowerCase
toLowerCase(s) ==
  [k \in 1..Len(s) |->
     IF \E u \in 1..Len(Upper) : Upper[u] = s[k]
     THEN Lower[CHOOSE u \in 1..Len(Upper) : Upper[u] = s[k]]
     ELSE s[k]]

\* String.prototype.includes
includes(s, m) ==
  \E k \in 0..(Len(s) - Len(m)) : SubSeq(s, k + 1, k + Len(m)) = m

\* Array.prototype.join
RECURSIVE join(_, _)
join(list, sep) ==
  IF list = <<>> THEN <<>>
  ELSE IF Len(list) = 1 THEN list[1]
  ELSE list[1] \o sep \o join(Tail(list), sep)

\* the category names of the Itinerary page and of the catalogue
Nature == <<"N", "a", "t", "u", "r", "e">>
Culture == <<"C", "u", "l", "t", "u", "r", "e">>
Adventure == <<"A", "d", "v", "e", "n", "t", "u", "r", "e">>
Food == <<"F", "o", "o", "d">>
\* a subcategory as the preference form stores it
NatureSub == <<"n", "a", "t", "u", "r", "e">>

\* the municipalities the district matchers name
Bacacay == <<"B", "a", "c", "a", "c", "a", "y">>
Malilipot == <<"M", "a", "l", "i", "l", "i", "p", "o", "t">>
Malinao == <<"M", "a", "l", "i", "n", "a", "o">>
SantoDomingo == <<"S", "a", "n", "t", "o", " ", "D", "o", "m", "i", "n", "g", "o">>
Tiwi == <<"T", "i", "w", "i">>
Tabaco == <<"T", "a", "b", "a", "c", "o">>
Legazpi == <<"L", "e", "g", "a", "z", "p", "i">>
Camalig == <<"C", "a", "m", "a", "l", "i", "g">>
Daraga == <<"D", "a", "r", "a", "g", "a">>
Manito == <<"M", "a", "n", "i", "t", "o">>
RapuRapu == <<"R", "a", "p", "u", "-", "R", "a", "p", "u">>
Guinobatan == <<"G", "u", "i", "n", "o", "b", "a", "t", "a", "n">>
Ligao == <<"L", "i", "g", "a", "o">>
Oas == <<"O", "a", "s">>
PioDuran == <<"P", "i", "o", " ", "D", "u", "r", "a", "n">>
Polangui == <<"P", "o", "l", "a", "n", "g", "u", "i">>
Jovellar == <<"J", "o", "v", "e", "l", "l", "a", "r">>

\* municipality values of catalogue rows; a null municipality is the empty string
LegazpiCity == Legazpi \o <<" ", "C", "i", "t", "y">>
TabacoCity == Tabaco \o <<" ", "C", "i", "t", "y">>
NoMunicipality == <<>>

(***************************************************************************)
(* The catalogue (table tourist_spots) and the user's preferences          *)
(***************************************************************************)
NumSpots == 9
NumCategories == 2
MaxItineraries == 2
NumCalls == 2
ClickTop == 2
ToggleTop == 3

\* ratings are kept in tenths (48 is 4.8); a null rating is 0
RatingUnit == 10
Ratings == <<0, 35, 48>>
Municipalities == <<LegazpiCity, TabacoCity, Guinobatan, NoMunicipality>>

\* row i of tourist_spots
Spot(i) ==
  [id |-> i,
   category |-> IF i <= 3 THEN <<Nature>>
                ELSE IF i = 4 THEN <<Nature, Culture>> ELSE <<Culture>>,
   municipality |-> Municipalities[(i % Len(Municipalities)) + 1],
   is_hidden_gem |-> (i % 3 = 0),
   rating |-> Ratings[((i \div 2) % Len(Ratings)) + 1]]

Catalogue == [i \in 1..NumSpots |-> Spot(i)]

\* table tourist_spots, in row order; no modelled operation writes it
tourist_spots == Catalogue

NoPreferences == [interests |-> <<>>, categories |-> <<>>,
                  subcategories |-> <<>>, districts |-> <<>>]

\* user_preferences: interests for RecommendedSpots, categories and
\* subcategories for PersonalizedFeed, districts for both
Prefs ==
  { [interests |-> <<Nature>>, categories |-> <<Nature>>,
     subcategories |-> <<>>, districts |-> <<"District 2">>],
    [interests |-> <<Culture, Nature>>, categories |-> <<Culture>>,
     subcategories |-> <<NatureSub>>, districts |-> <<"District 1", "District 3">>],
    NoPreferences }

userId == "u1"

Quiet == [failed |-> "none", toast |-> "none", console |-> "none"]
toastOnly(message) == [Quiet EXCEPT !.toast = message]

Range(seq) == {seq[k] : k \in 1..Len(seq)}

Max(S) == CHOOSE x \in S : \A y \in S : y <= x

\* Array.prototype.slice(0, n)
slice(seq, n) == SubSeq(seq, 1, IF Len(seq) < n THEN Len(seq) ELSE n)

(***************************************************************************)
(* src/pages/Itinerary.tsx                                                 *)
(***************************************************************************)
MaxSelected == 5
MinSelected == 3
SpotsPerDay == 2

categories == <<Nature, Culture, Adventure, Food>>

NoItinerary == [id |-> 0, user_id |-> "", name |-> <<>>, selected_categories |-> <<>>,
                spots |-> <<>>, route |-> [schedule |-> <<>>, total_days |-> 0]]

\* The component state after mount.  selectedSpots is read only through
\* includes and length, so it is kept as the set of its ids; spots are held
\* by id, the catalogue being fixed while the page is open.
InitPage ==
  [route |-> "itinerary", auth |-> "pending", session |-> "none",
   selectedCategories |-> <<>>, recommendedSpots |-> <<>>, selectedSpots |-> {},
   isGenerating |-> FALSE, isSaving |-> FALSE, scheduledItinerary |-> <<>>,
   query |-> <<>>, inserting |-> NoItinerary]

\* the mount effect: getSession resolves, without a session the page is left
getSession ==
  /\ page.route = "itinerary"
  /\ page.auth = "pending"
  /\ \/ page' = [page EXCEPT !.auth = "done", !.session = userId]
     \/ page' = [InitPage EXCEPT !.route = "auth", !.auth = "done"]
  /\ notice' = Quiet
  /\ UNCHANGED <<itineraries, preferences, recommended, feed, calls>>
  /\ UNCHANGED otpVars

toggleCategory(category) ==
  /\ page.route = "itinerary"
  /\ page' = [page EXCEPT !.selectedCategories =
       IF category \in Range(@)
       THEN SelectSeq(@, LAMBDA c : c # category)
       ELSE Append(@, category)]
  /\ notice' = Quiet
  /\ UNCHANGED <<itineraries, preferences, recommended, feed, calls>>
  /\ UNCHANGED otpVars

\* The Generate Recommendations button (disabled while generating or with no
\* category), the handler's own check, setIsGenerating(true), the query sent.
generateItinerary ==
  /\ page.route = "itinerary"
  /\ ~page.isGenerating
  /\ Len(page.selectedCategories) # 0
  /\ IF Len(page.selectedCategories) = 0
     THEN /\ notice' = toastOnly("Please select at least one interest")
          /\ UNCHANGED page
     ELSE /\ page' = [page EXCEPT !.isGenerating = TRUE,
                                  !.query = page.selectedCategories]
          /\ notice' = Quiet
  /\ UNCHANGED <<itineraries, preferences, recommended, feed, calls>>
  /\ UNCHANGED otpVars

\* .overlaps("category", selectedCategories): the arrays share an element
overlaps(category, selected) ==
  \E a \in 1..Len(category) : \E b \in 1..Len(selected) : category[a] = selected[b]

\* if (error) { toast.error("Failed to generate recommendations"); return; }
generateFailed ==
  [Quiet EXCEPT !.failed = "Itinerary.generateItinerary",
                !.toast = "Failed to generate recommendations"]

\* the query returns: setIsGenerating(false), then the error toast or the result
generateItinerary_select ==
  /\ page.route = "itinerary"
  /\ page.isGenerating
  /\ \/ LET data == SelectSeq([i \in 1..Len(tourist_spots) |-> i],
                      LAMBDA i : overlaps(tourist_spots[i].category, page.query))
        IN /\ page' = [page EXCEPT !.isGenerating = FALSE, !.query = <<>>,
                                   !.recommendedSpots = data,
                                   !.selectedSpots = Range(data)]
           /\ notice' = toastOnly("Found amazing spots for you!")
     \/ /\ page' = [page EXCEPT !.isGenerating = FALSE, !.query = <<>>]
        /\ notice' = generateFailed
  /\ UNCHANGED <<itineraries, preferences, recommended, feed, calls>>
  /\ UNCHANGED otpVars

\* the spots the user clicks: the first cards of the recommendations
ToggleItems == Range(slice(page.recommendedSpots, ToggleTop))

\* a click on one of the recommended spots
toggleSpot(spotId) ==
  /\ page.route = "itinerary"
  /\ spotId \in ToggleItems
  /\ LET prev == page.selectedSpots
         isSelected == spotId \in prev
         newSelection == IF isSelected THEN prev \ {spotId} ELSE prev \cup {spotId}
     IN IF Cardinality(newSelection) > MaxSelected
        THEN /\ notice' = toastOnly("You can select a maximum of 5 spots")
             /\ UNCHANGED page
        ELSE /\ page' = [page EXCEPT !.scheduledItinerary = <<>>,
                                     !.selectedSpots = newSelection]
             /\ notice' = Quiet
  /\ UNCHANGED <<itineraries, preferences, recommended, feed, calls>>
  /\ UNCHANGED otpVars

timeSlots ==
  << [start |-> "09:00 AM", end |-> "11:30 AM"],
     [start |-> "02:00 PM", end |-> "04:30 PM"],
     [start |-> "09:30 AM", end |-> "12:00 PM"],
     [start |-> "01:30 PM", end |-> "04:00 PM"] >>

\* mutant: every spot after the first opens a new day
RECURSIVE schedule_dayPerSpot(_, _, _, _, _)
schedule_dayPerSpot(selectedSpotsData, index, currentDay, slotIndex, acc) ==
  IF index >= Len(selectedSpotsData) THEN acc
  ELSE LET newDay == index > 0
           day == IF newDay THEN currentDay + 1 ELSE currentDay
           slot == IF newDay THEN 0 ELSE slotIndex
       IN schedule_dayPerSpot(selectedSpotsData, index + 1, day, slot + 1,
                   Append(acc, [spot |-> selectedSpotsData[index + 1],
                                day |-> day,
                                startTime |-> timeSlots[slot + 1].start,
                                endTime |-> timeSlots[slot + 1].end]))

\* the forEach of generateSchedule; index and slotIndex count from 0
RECURSIVE schedule(_, _, _, _, _)
schedule(selectedSpotsData, index, currentDay, slotIndex, acc) ==
  IF index >= Len(selectedSpotsData) THEN acc
  ELSE LET newDay == index > 0 /\ index % SpotsPerDay = 0
           day == IF newDay THEN currentDay + 1 ELSE currentDay
           slot == IF newDay THEN 0 ELSE slotIndex
       IN schedule(selectedSpotsData, index + 1, day, slot + 1,
                   Append(acc, [spot |-> selectedSpotsData[index + 1],
                                day |-> day,
                                startTime |-> timeSlots[slot + 1].start,
                                endTime |-> timeSlots[slot + 1].end]))

\* recommendedSpots.filter(spot => selectedSpots.includes(spot.id))
selectedSpotsData ==
  SelectSeq(page.recommendedSpots, LAMBDA id : id \in page.selectedSpots)

\* mutant: the button is disabled only below 3 selected spots
scheduleDisabled_noUpperLimit ==
  Cardinality(page.selectedSpots) < MinSelected

\* disabled={selectedSpots.length < 3 || selectedSpots.length > 5}
scheduleDisabled ==
  \/ Cardinality(page.selectedSpots) < MinSelected
  \/ Cardinality(page.selectedSpots) > MaxSelected

\* what the handler generateSchedule makes of the page's state
generateScheduleHandler ==
  IF Cardinality(page.selectedSpots) < MinSelected
  THEN [page |-> page, notice |-> toastOnly("Please select at least 3 spots")]
  ELSE [page |-> [page EXCEPT !.scheduledItinerary =
                     schedule(selectedSpotsData, 0, 1, 0, <<>>)],
        notice |-> toastOnly("Schedule generated successfully!")]

\* The Generate Schedule button (shown with the recommendations, disabled
\* below 3 and above 5 selected spots) and its handler.
generateSchedule ==
  /\ page.route = "itinerary"
  /\ Len(page.recommendedSpots) > 0
  /\ ~scheduleDisabled
  /\ page' = generateScheduleHandler.page
  /\ notice' = generateScheduleHandler.notice
  /\ UNCHANGED <<itineraries, preferences, recommended, feed, calls>>
  /\ UNCHANGED otpVars

\* the row saveItinerary sends
itineraryRow ==
  [id |-> 0, user_id |-> page.session,
   name |-> join(page.selectedCategories, <<" ", "&", " ">>) \o <<" ", "A", "d", "v", "e", "n", "t", "u", "r", "e">>,
   selected_categories |-> page.selectedCategories,
   spots |-> selectedSpotsData,
   route |-> [schedule |-> page.scheduledItinerary,
              total_days |-> Max({page.scheduledItinerary[k].day :
                                    k \in 1..Len(page.scheduledItinerary)})]]

\* mutant: the Save button stays enabled while the insert is in flight
saveDisabled_never == FALSE

\* disabled={isSaving}
saveDisabled == page.isSaving

\* what the handler saveItinerary makes of the page's state, up to its await
saveItineraryHandler ==
  IF page.session = "none"
  THEN [page |-> page, notice |-> toastOnly("Please sign in to save your itinerary")]
  ELSE IF Len(page.scheduledItinerary) = 0
  THEN [page |-> page, notice |-> toastOnly("Please generate a schedule first")]
  ELSE [page |-> [page EXCEPT !.isSaving = TRUE, !.inserting = itineraryRow],
        notice |-> Quiet]

\* The Save Itinerary button (shown with the schedule, disabled while saving),
\* the two checks, setIsSaving(true), the insert sent.
saveItinerary ==
  /\ page.route = "itinerary"
  /\ Len(page.scheduledItinerary) > 0
  /\ ~saveDisabled
  /\ page' = saveItineraryHandler.page
  /\ notice' = saveItineraryHandler.notice
  /\ UNCHANGED <<itineraries, preferences, recommended, feed, calls>>
  /\ UNCHANGED otpVars

\* the insert returns: setIsSaving(false), then the error toast, or the
\* success toast and navigate("/dashboard")
saveItinerary_insert ==
  /\ page.route = "itinerary"
  /\ page.isSaving
  /\ \/ /\ Len(itineraries) < MaxItineraries
        /\ itineraries' = Append(itineraries,
             [page.inserting EXCEPT !.id = Len(itineraries) + 1])
        /\ page' = [InitPage EXCEPT !.route = "dashboard", !.auth = "done"]
        /\ notice' = toastOnly("Itinerary saved successfully!")
     \/ /\ page' = [page EXCEPT !.isSaving = FALSE, !.inserting = NoItinerary]
        /\ notice' = [Quiet EXCEPT !.failed = "Itinerary.saveItinerary",
                                   !.toast = "Failed to save itinerary"]
        /\ UNCHANGED itineraries
  /\ UNCHANGED <<preferences, recommended, feed, calls>>
  /\ UNCHANGED otpVars

(***************************************************************************)
(* The preference scorers: src/components/RecommendedSpots.tsx and         *)
(* src/components/PersonalizedFeed.tsx.  Scores are kept as integers, in   *)
(* units of 1/ScoreUnit.                                                   *)
(***************************************************************************)
ScoreUnit == 50
MaxRecommended == 8
MaxFeed == 6

\* spot.category.some(cat => interest includes cat, or cat includes interest)
matches(word, category) ==
  \E c \in 1..Len(category) :
    \/ includes(toLowerCase(word), toLowerCase(category[c]))
    \/ includes(toLowerCase(category[c]), toLowerCase(word))

\* spot.category.some(spotCat => spotCat includes sub)
matchesSub(sub, category) ==
  \E c \in 1..Len(category) : includes(toLowerCase(category[c]), toLowerCase(sub))

\* the municipalities RecommendedSpots counts to a district
recDistrict(district) ==
  IF district = "District 1"
  THEN {Bacacay, Malilipot, Malinao, SantoDomingo, Tiwi, Tabaco}
  ELSE IF district = "District 2"
  THEN {Legazpi, Camalig, Daraga, Manito, RapuRapu}
  ELSE IF district = "District 3"
  THEN {Guinobatan, Ligao, Oas, PioDuran, Polangui, Jovellar}
  ELSE {}

\* the municipalities PersonalizedFeed counts to a district
feedDistrict(district) ==
  IF district = "District 1"
  THEN {Bacacay, Malilipot, Malinao, SantoDomingo, Tiwi, Tabaco}
  ELSE IF district = "District 2"
  THEN {Camalig, Guinobatan, Ligao, Jovellar}
  ELSE IF district = "District 3"
  THEN {Legazpi, Daraga, Manito, RapuRapu}
  ELSE {}

\* [..].some(m => spot.municipality?.includes(m)) in RecommendedSpots
recInDistrict(municipality, district) ==
  \E m \in recDistrict(district) : includes(municipality, m)

\* [..].some(m => spot.municipality?.includes(m)) in PersonalizedFeed
feedInDistrict(municipality, district) ==
  \E m \in feedDistrict(district) : includes(municipality, m)

\* (spot.rating / 5) * weight, in units of 1/ScoreUnit
ratingBoost(rating, weight) == (rating * weight * ScoreUnit) \div (5 * RatingUnit)

\* the score RecommendedSpots gives a spot
recScore(spot, prefs) ==
  LET matchingInterests ==
        SelectSeq(prefs.interests, LAMBDA interest : matches(interest, spot.category))
      districtMatch ==
        /\ spot.municipality # NoMunicipality
        /\ \E d \in 1..Len(prefs.districts) :
             recInDistrict(spot.municipality, prefs.districts[d])
  IN Len(matchingInterests) * 3 * ScoreUnit
       + (IF districtMatch THEN 5 * ScoreUnit ELSE 0)
       + (IF spot.is_hidden_gem THEN 2 * ScoreUnit ELSE 0)
       + (IF spot.rating # 0 THEN ratingBoost(spot.rating, 2) ELSE 0)

\* the score PersonalizedFeed gives a spot
feedScore(spot, prefs) ==
  LET matchingCategories ==
        SelectSeq(prefs.categories, LAMBDA cat : matches(cat, spot.category))
      matchingSubcategories ==
        SelectSeq(prefs.subcategories, LAMBDA sub : matchesSub(sub, spot.category))
      districtMatch ==
        /\ spot.municipality # NoMunicipality
        /\ \E d \in 1..Len(prefs.districts) :
             feedInDistrict(spot.municipality, prefs.districts[d])
  IN Len(matchingCategories) * 5 * ScoreUnit
       + Len(matchingSubcategories) * 3 * ScoreUnit
       + (IF districtMatch THEN 10 * ScoreUnit ELSE 0)
       + (IF spot.is_hidden_gem THEN 5 * ScoreUnit ELSE 0)
       + (IF spot.rating # 0 THEN ratingBoost(spot.rating, 3) ELSE 0)

\* mutant: the comparator is a.score - b.score
RECURSIVE sortByScore_ascending(_)
sortByScore_ascending(scored) ==
  IF scored = <<>> THEN <<>>
  ELSE LET x == scored[Len(scored)]
           rest == sortByScore_ascending(SubSeq(scored, 1, Len(scored) - 1))
           k == Cardinality({i \in 1..Len(rest) : rest[i].score <= x.score})
       IN SubSeq(rest, 1, k) \o <<x>> \o SubSeq(rest, k + 1, Len(rest))

\* .sort((a, b) => b.score - a.score): descending, equal scores keep their order
RECURSIVE sortByScore(_)
sortByScore(scored) ==
  IF scored = <<>> THEN <<>>
  ELSE LET x == scored[Len(scored)]
           rest == sortByScore(SubSeq(scored, 1, Len(scored) - 1))
           k == Cardinality({i \in 1..Len(rest) : rest[i].score >= x.score})
       IN SubSeq(rest, 1, k) \o <<x>> \o SubSeq(rest, k + 1, Len(rest))

\* data.map(spot => ({...spot, score})), .sort, .slice(0, 8)
recommendedSpots(data, prefs) ==
  slice(sortByScore([i \in 1..Len(data) |->
                       [id |-> data[i].id, score |-> recScore(data[i], prefs)]]),
        MaxRecommended)

\* data.map(..), .filter(spot => spot.score > 0), .sort, .slice(0, 6)
filteredSpots(data, prefs) ==
  slice(sortByScore(SelectSeq([i \in 1..Len(data) |->
                                 [id |-> data[i].id, score |-> feedScore(data[i], prefs)]],
                              LAMBDA spot : spot.score > 0)),
        MaxFeed)

InitRecommended == [spots |-> <<>>, loading |-> TRUE, pc |-> "idle"]

\* the effect on [preferences]: the query is sent
fetchRecommendedSpots ==
  /\ page.route = "dashboard"
  /\ recommended.pc = "idle"
  /\ recommended' = [recommended EXCEPT !.pc = "select"]
  /\ notice' = Quiet
  /\ UNCHANGED <<itineraries, preferences, page, feed, calls>>
  /\ UNCHANGED otpVars

\* the query returns: the scored list, or the catch block; finally setLoading(false)
fetchRecommendedSpots_select ==
  /\ recommended.pc = "select"
  /\ \/ /\ recommended' = [spots |-> recommendedSpots(tourist_spots, preferences),
                           loading |-> FALSE, pc |-> "idle"]
        /\ notice' = Quiet
     \/ /\ recommended' = [recommended EXCEPT !.loading = FALSE, !.pc = "idle"]
        /\ notice' = [Quiet EXCEPT !.failed = "RecommendedSpots.fetchRecommendedSpots",
                                   !.console = "Error fetching spots:"]
  /\ UNCHANGED <<itineraries, preferences, page, feed, calls>>
  /\ UNCHANGED otpVars

\* handleAutoAddRecommendations at rest: the spots and the addedToItinerary set
\* it closed over, and the index its loop has reached
IdleAuto == [pc |-> "idle", topSpots |-> <<>>, added |-> {}, index |-> 0]

InitFeed == [spots |-> <<>>, loading |-> TRUE, pc |-> "idle", addedToItinerary |-> {},
             autoAddEnabled |-> FALSE, auto |-> IdleAuto]

\* spots.slice(0, 5) of handleAutoAddRecommendations
AutoTop == 5

\* the effect on [autoAddEnabled, spots]: the loop starts over the top spots,
\* with the addedToItinerary set of this render
autoAddEffect(enabled, spots, added) ==
  IF enabled /\ Len(spots) > 0
  THEN [pc |-> "loop",
        topSpots |-> [k \in 1..Len(slice(spots, AutoTop)) |-> spots[k].id],
        added |-> added, index |-> 0]
  ELSE IdleAuto

\* the effect on [preferences]: setLoading(true) and the query of fetchSpots
fetchPersonalizedContent ==
  /\ page.route = "dashboard"
  /\ feed.pc = "idle"
  /\ feed.auto.pc = "idle"
  /\ feed' = [feed EXCEPT !.loading = TRUE, !.pc = "select"]
  /\ notice' = Quiet
  /\ UNCHANGED <<itineraries, preferences, page, recommended, calls>>
  /\ UNCHANGED otpVars

\* the query of fetchSpots returns; the accommodation and restaurant queries
\* that follow it are left out; finally setLoading(false)
fetchSpots ==
  /\ feed.pc = "select"
  /\ \/ /\ feed' = [feed EXCEPT !.spots = filteredSpots(tourist_spots, preferences),
                                !.loading = FALSE, !.pc = "idle",
                                !.auto = autoAddEffect(feed.autoAddEnabled,
                                           filteredSpots(tourist_spots, preferences),
                                           feed.addedToItinerary)]
        /\ notice' = Quiet
     \/ /\ feed' = [feed EXCEPT !.loading = FALSE, !.pc = "idle"]
        /\ notice' = [Quiet EXCEPT !.failed = "PersonalizedFeed.fetchSpots",
                                   !.console = "Error fetching spots:"]
  /\ UNCHANGED <<itineraries, preferences, page, recommended, calls>>
  /\ UNCHANGED otpVars

(***************************************************************************)
(* PersonalizedFeed.addToItinerary                                         *)
(***************************************************************************)
Calls == 1..NumCalls
\* the call that the loop of handleAutoAddRecommendations awaits
AutoCall == 0
AllCalls == Calls \cup {AutoCall}

MyPersonalizedItinerary == <<"M", "y", " ", "P", "e", "r", "s", "o", "n", "a", "l", "i", "z", "e", "d", " ", "I", "t", "i", "n", "e", "r", "a", "r", "y">>

IdleCall == [pc |-> "idle", item |-> 0, existingItinerary |-> NoItinerary]

FreeCall ==
  {c \in Calls : calls[c].pc = "idle" /\ \A d \in 1..(c - 1) : calls[d].pc # "idle"}

\* the spots whose Add button the user presses: the first cards of the feed
ClickItems ==
  {feed.spots[k].id : k \in 1..(IF Len(feed.spots) < ClickTop
                                 THEN Len(feed.spots) ELSE ClickTop)}

\* The Auto-Add button: setAutoAddEnabled(!autoAddEnabled) and the effect that
\* follows.  One loop runs at a time: the button is pressed while no loop
\* and no fetch of the feed is under way.
toggleAutoAdd ==
  /\ page.route = "dashboard"
  /\ feed.pc = "idle"
  /\ feed.auto.pc = "idle"
  /\ feed' = [feed EXCEPT !.autoAddEnabled = ~feed.autoAddEnabled,
                          !.auto = autoAddEffect(~feed.autoAddEnabled, feed.spots,
                                                 feed.addedToItinerary)]
  /\ notice' = Quiet
  /\ UNCHANGED <<itineraries, preferences, page, recommended, calls>>
  /\ UNCHANGED otpVars

\* One turn of the for loop: the call it awaited has ended; the next spot is
\* added unless the set the loop closed over holds it.
handleAutoAddRecommendations ==
  /\ feed.auto.pc = "loop"
  /\ calls[AutoCall].pc = "idle"
  /\ IF feed.auto.index >= Len(feed.auto.topSpots)
     THEN /\ feed' = [feed EXCEPT !.auto = IdleAuto]
          /\ UNCHANGED calls
     ELSE LET spot == feed.auto.topSpots[feed.auto.index + 1]
          IN /\ feed' = [feed EXCEPT !.auto.index = @ + 1]
             /\ IF spot \notin feed.auto.added
                THEN calls' = [calls EXCEPT ![AutoCall] =
                                 [IdleCall EXCEPT !.pc = "select", !.item = spot]]
                ELSE UNCHANGED calls
  /\ notice' = Quiet
  /\ UNCHANGED <<itineraries, preferences, page, recommended>>
  /\ UNCHANGED otpVars

\* a click on an enabled Add to Itinerary button: the read of the latest
\* itinerary is sent
addToItinerary(c, item) ==
  /\ page.route = "dashboard"
  /\ c \in FreeCall
  /\ item \in ClickItems
  /\ item \notin feed.addedToItinerary
  /\ calls' = [calls EXCEPT ![c] = [IdleCall EXCEPT !.pc = "select", !.item = item]]
  /\ notice' = Quiet
  /\ UNCHANGED <<itineraries, preferences, page, recommended, feed>>
  /\ UNCHANGED otpVars

\* .eq("user_id", userId).order("created_at", {ascending: false}).limit(1)
latestItinerary ==
  LET mine == SelectSeq(itineraries, LAMBDA row : row.user_id = userId)
  IN IF mine = <<>> THEN NoItinerary ELSE mine[Len(mine)]

\* The read returns.  No row (PGRST116) leads to the insert, a row that holds
\* the item ends the call, a row that does not leads to the update; any other
\* error is logged and ends the call.
addToItinerary_select(c) ==
  /\ calls[c].pc = "select"
  /\ \/ /\ calls' = [calls EXCEPT ![c] =
             IF latestItinerary = NoItinerary
             THEN [@ EXCEPT !.pc = "insert"]
             ELSE IF calls[c].item \in Range(latestItinerary.spots)
             THEN IdleCall
             ELSE [@ EXCEPT !.pc = "update", !.existingItinerary = latestItinerary]]
        /\ notice' = Quiet
     \/ /\ calls' = [calls EXCEPT ![c] = IdleCall]
        /\ notice' = [Quiet EXCEPT !.failed = "PersonalizedFeed.addToItinerary select",
                                   !.console = "Error fetching itinerary:"]
  /\ UNCHANGED <<itineraries, preferences, page, recommended, feed>>
  /\ UNCHANGED otpVars

\* update({spots: [...currentSpots, itemData]}).eq("id", existingItinerary.id)
addToItinerary_update(c) ==
  /\ calls[c].pc = "update"
  /\ \/ /\ itineraries' =
             [k \in 1..Len(itineraries) |->
                IF itineraries[k].id = calls[c].existingItinerary.id
                THEN [itineraries[k] EXCEPT !.spots =
                        Append(calls[c].existingItinerary.spots, calls[c].item)]
                ELSE itineraries[k]]
        /\ feed' = [feed EXCEPT !.addedToItinerary = @ \cup {calls[c].item}]
        /\ notice' = Quiet
     \/ /\ notice' = [Quiet EXCEPT !.failed = "PersonalizedFeed.addToItinerary update",
                                   !.console = "Error updating itinerary:"]
        /\ UNCHANGED <<itineraries, feed>>
  /\ calls' = [calls EXCEPT ![c] = IdleCall]
  /\ UNCHANGED <<preferences, page, recommended>>
  /\ UNCHANGED otpVars

\* insert({user_id, name: "My Personalized Itinerary", spots: [itemData], ..})
addToItinerary_insert(c) ==
  /\ calls[c].pc = "insert"
  /\ \/ /\ Len(itineraries) < MaxItineraries
        /\ itineraries' = Append(itineraries,
             [NoItinerary EXCEPT !.id = Len(itineraries) + 1, !.user_id = userId,
                                 !.name = MyPersonalizedItinerary,
                                 !.spots = <<calls[c].item>>,
                                 !.selected_categories = preferences.categories])
        /\ feed' = [feed EXCEPT !.addedToItinerary = @ \cup {calls[c].item}]
        /\ notice' = Quiet
     \/ /\ notice' = [Quiet EXCEPT !.failed = "PersonalizedFeed.addToItinerary insert",
                                   !.console = "Error creating itinerary:"]
        /\ UNCHANGED <<itineraries, feed>>
  /\ calls' = [calls EXCEPT ![c] = IdleCall]
  /\ UNCHANGED <<preferences, page, recommended>>
  /\ UNCHANGED otpVars

\* an account that exists before the run
UserA == [email |-> EmailA, phone |-> NoContact]
\* an account that signed up with a phone number
UserP == [email |-> NoContact, phone |-> PhoneOK]

\* the itinerary planner before any of its pages is opened
InitPlan ==
  /\ itineraries = <<>>
  /\ preferences = NoPreferences
  /\ page = [InitPage EXCEPT !.route = "signup", !.auth = "done"]
  /\ recommended = InitRecommended
  /\ feed = InitFeed
  /\ calls = [c \in AllCalls |-> IdleCall]
  /\ notice = Quiet

Init ==
  /\ temp_otps = {}
  /\ nextId = 1
  /\ users \in {{}, {UserA}, {UserP}}
  /\ now = 0
  /\ req = [r \in Reqs |-> IdleReq]
  /\ tab = [t \in Tabs |-> IdleTab]
  /\ InitPlan

handler(r) ==
  \/ handler_listUsers(r)
  \/ handler_delete(r)
  \/ handler_insert(r)
  \/ handler_send(r)

\* the edge function under every kind of request; one Signup/VerifyOTP tab
Next ==
  \/ \E r \in Reqs : handler(r)
  \/ \E r \in Reqs : serve(r)
  \/ \E r \in Reqs : serve_response(r)
  \/ handleSubmit(1, Forms)
  \/ handleSubmit_response(1)
  \/ handleResendOTP(1)
  \/ handleResendOTP_response(1)
  \/ backToSignUp(1)
  \/ VerifyOTP_mount(1)

Spec == Init /\ [][Next]_vars

InitVerify ==
  /\ temp_otps = {}
  /\ nextId = 1
  /\ users = {}
  /\ now = 0
  /\ req = [r \in Reqs |-> IdleReq]
  /\ tab = [t \in Tabs |-> IdleTab]
  /\ InitPlan

\* signup and verification in several tabs, with time passing
NextVerify ==
  \/ \E r \in Reqs : handler(r)
  \/ \E t \in Tabs : handleSubmit(t, EmailForms)
  \/ \E t \in Tabs : handleSubmit_response(t)
  \/ \E t \in Tabs : handleVerifyOTP(t)
  \/ \E t \in Tabs : handleVerifyOTP_select(t)
  \/ \E t \in Tabs : handleVerifyOTP_signUp(t)
  \/ \E t \in Tabs : handleVerifyOTP_update(t)
  \/ Tick

SpecVerify == InitVerify /\ [][NextVerify]_vars

\* one browser tab from the Signup form to the dashboard, with time passing
NextSignup ==
  \/ \E r \in Reqs : handler(r)
  \/ handleSubmit(1, Forms)
  \/ handleSubmit_response(1)
  \/ VerifyOTP_mount(1)
  \/ handleVerifyOTP(1)
  \/ handleVerifyOTP_select(1)
  \/ handleVerifyOTP_signUp(1)
  \/ handleVerifyOTP_update(1)
  \/ handleResendOTP(1)
  \/ handleResendOTP_response(1)
  \/ backToSignUp(1)
  \/ Tick

SpecSignup == Init /\ [][NextSignup]_vars

\* the signup flow at rest
InitOtp ==
  /\ temp_otps = {}
  /\ nextId = 1
  /\ users = {UserA}
  /\ now = 0
  /\ req = [r \in Reqs |-> IdleReq]
  /\ tab = [t \in Tabs |-> [IdleTab EXCEPT !.page = "dashboard"]]

\* a signed-in user opens /itinerary
InitItinerary ==
  /\ InitOtp
  /\ itineraries = <<>>
  /\ preferences = NoPreferences
  /\ page = InitPage
  /\ recommended = InitRecommended
  /\ feed = InitFeed
  /\ calls = [c \in AllCalls |-> IdleCall]
  /\ notice = Quiet

\* one visit of the Itinerary page
NextItinerary ==
  \/ getSession
  \/ \E k \in 1..NumCategories : toggleCategory(categories[k])
  \/ generateItinerary
  \/ generateItinerary_select
  \/ \E spotId \in 1..NumSpots : toggleSpot(spotId)
  \/ generateSchedule
  \/ saveItinerary
  \/ saveItinerary_insert

SpecItinerary == InitItinerary /\ [][NextItinerary]_vars

\* a signed-in user opens /dashboard
InitDashboard ==
  /\ InitOtp
  /\ itineraries = <<>>
  /\ preferences \in Prefs
  /\ page = [InitPage EXCEPT !.route = "dashboard", !.auth = "done",
                              !.session = userId]
  /\ recommended = InitRecommended
  /\ feed = InitFeed
  /\ calls = [c \in AllCalls |-> IdleCall]
  /\ notice = Quiet

\* RecommendedSpots and PersonalizedFeed on the dashboard
NextDashboard ==
  \/ fetchRecommendedSpots
  \/ fetchRecommendedSpots_select
  \/ fetchPersonalizedContent
  \/ fetchSpots
  \/ \E c \in Calls : \E item \in 1..NumSpots : addToItinerary(c, item)
  \/ \E c \in Calls : addToItinerary_select(c)
  \/ \E c \in Calls : addToItinerary_update(c)
  \/ \E c \in Calls : addToItinerary_insert(c)

SpecDashboard == InitDashboard /\ [][NextDashboard]_vars

\* the dashboard of a user whose preference lists are empty
InitAutoAdd ==
  /\ InitDashboard
  /\ preferences = NoPreferences

\* the feed, its Auto-Add button and one Add click at a time
NextAutoAdd ==
  \/ fetchPersonalizedContent
  \/ fetchSpots
  \/ toggleAutoAdd
  \/ handleAutoAddRecommendations
  \/ \E item \in 1..NumSpots : addToItinerary(1, item)
  \/ \E c \in {AutoCall, 1} : addToItinerary_select(c)
  \/ \E c \in {AutoCall, 1} : addToItinerary_update(c)
  \/ \E c \in {AutoCall, 1} : addToItinerary_insert(c)

SpecAutoAdd == InitAutoAdd /\ [][NextAutoAdd]_vars

(***************************************************************************)
(* Properties of the verification flow, checked under SpecVerify           *)
(***************************************************************************)

\* the rows of temp_otps that carry a tab's signup contact and typed code
MatchingRows(t) ==
  {row \in temp_otps : /\ row.contact = tab[t].signupData.contact
                       /\ row.otp_code = tab[t].otp}

\* rows that are verified after the step and were not before it
NewlyVerified ==
  {row.id : row \in {x \in temp_otps' : x.verified}} \
    {row.id : row \in {x \in temp_otps : x.verified}}

\* C1: handleVerifyOTP goes on to auth.signUp only when temp_otps holds
\* exactly one row with the signup contact and the typed 6-digit code; with
\* no such row (or several) it stops, and then no account is created and no
\* row is marked verified.  Accounts are created and rows marked only by a
\* verification that passed this lookup.
C1_SignUpOnlyOnMatch ==
  [][/\ \A t \in Tabs :
          /\ (tab[t].pc = "select" /\ tab'[t].pc = "signUp") =>
               /\ Cardinality(MatchingRows(t)) = 1
               /\ Len(tab[t].otp) = 6
               /\ tab'[t].otpData \in MatchingRows(t)
          /\ (tab[t].pc = "select" /\ tab'[t] # tab[t]
                /\ Cardinality(MatchingRows(t)) # 1) =>
               /\ tab'[t].pc = "idle"
               /\ users' = users
               /\ NewlyVerified = {}
          /\ (tab'[t].pc = "signUp" /\ tab[t].pc # "signUp") => tab[t].pc = "select"
          /\ (tab'[t].pc = "update" /\ tab[t].pc # "update") => tab[t].pc = "signUp"
          /\ (tab'[t].pc = "select" /\ tab[t].pc # "select") => Len(tab'[t].otp) = 6
     /\ (users' # users) =>
          \E t \in Tabs : tab[t].pc = "signUp" /\ tab'[t].pc = "update"
     /\ \A id \in NewlyVerified :
          \E t \in Tabs : tab[t].pc = "update" /\ tab[t].otpData.id = id
    ]_vars

\* a verification found its one matching row, created the account and is
\* about to mark the row
C1_Witness ==
  \E t \in Tabs :
    /\ tab[t].pc = "update"
    /\ tab[t].otpData.otp_code = tab[t].otp
    /\ \E u \in users : u.email = tab[t].signupData.contact

\* C2: an OTP is one-time: once a verification has succeeded with a code and
\* marked its row verified, a verification asked for afterwards with the same
\* contact and code is rejected: it never gets as far as auth.signUp.
C2_OneTime ==
  \A t \in Tabs : tab[t].replay => tab[t].pc \notin {"signUp", "update"}

\* whether the code of handleVerifyOTP_signUp called auth.signUp in this step
SignUpCalled(t) ==
  /\ tab[t].pc = "signUp"
  /\ \/ tab'[t].pc = "update"
     \/ tab'[t].pc = "idle" /\ tab'[t].toast = "authError"

\* C3: an OTP expires after 5 minutes: when the matching row is more than 5
\* minutes old at the check, auth.signUp is not called, no account is
\* created and no row is marked verified; when it is at most 5 minutes old
\* the verification goes on to auth.signUp.
C3_ExpiresAfterFiveMinutes ==
  [][\A t \in Tabs :
       (tab[t].pc = "signUp" /\ tab'[t] # tab[t]) =>
         LET age == now - tab[t].otpData.created_at
         IN /\ (age > 5 * 60 * 1000) =>
                 /\ ~SignUpCalled(t)
                 /\ tab'[t].toast = "Verification code has expired"
                 /\ users' = users
                 /\ NewlyVerified = {}
            /\ (age <= 5 * 60 * 1000) => SignUpCalled(t)
    ]_vars

\* a code exactly five minutes old has been accepted and the account created
C3_Witness ==
  \E t \in Tabs :
    /\ tab[t].pc = "update"
    /\ now - tab[t].otpData.created_at = 5 * 60 * 1000
    /\ \E u \in users : u.email = tab[t].signupData.contact

\* a code was refused as expired
C3_WitnessExpired ==
  \E t \in Tabs : tab[t].toast = "Verification code has expired"

(***************************************************************************)
(* Properties of the send-otp function and its callers, checked under Spec *)
(***************************************************************************)
Has(log, e) == \E i \in 1..Len(log) : log[i] = e
Count(log, e) == Cardinality({i \in 1..Len(log) : log[i] = e})
Before(log, a, b) ==
  \E i \in 1..Len(log) : \E j \in 1..Len(log) : i < j /\ log[i] = a /\ log[j] = b
\* the events of a log that are among the four steps the specification names
NamedSteps(log) ==
  SelectSeq(log, LAMBDA e : e \in {"validate", "generate", "email", "store"})

\* C4 as stated: validate, generate, send the email, store; no OTP row is
\* stored before the email has been sent.
C4_EmailBeforeStore ==
  \A r \in Reqs :
    (req[r].contactType = "email" /\ Has(req[r].log, "store")) =>
      Before(req[r].log, "email", "store")

\* C4 as amended: an accepted email request validates, generates the code,
\* stores it and then sends the email; no email is sent before the row has
\* been stored.
C4_StoreBeforeEmail ==
  \A r \in Reqs :
    req[r].contactType = "email" =>
      /\ Has(req[r].log, "email") => Before(req[r].log, "store", "email")
      /\ (req[r].pc = "done" /\ req[r].status = 200) =>
           NamedSteps(req[r].log) = <<"validate", "generate", "store", "email">>
      /\ \E n \in 0..4 :
           NamedSteps(req[r].log) =
             SubSeq(<<"validate", "generate", "store", "email">>, 1, n)

\* an email request has been answered 200 after all four steps
C4_Witness ==
  \E r \in Reqs :
    /\ req[r].pc = "done" /\ req[r].status = 200
    /\ req[r].contactType = "email"
    /\ Has(req[r].log, "store") /\ Has(req[r].log, "email")

\* inputs of the model that the handler must refuse
Malformed(r) ==
  \/ r.contact = NoContact
  \/ r.contactType = ""
  \/ r.contactType = "email" /\ r.contact \in {BadEmail, PhoneOK}
  \/ r.contactType = "phone" /\ r.contact \in {EmailA, EmailB, BadEmail}

\* C5: a non-OPTIONS request is answered 200 with success only if its row
\* was inserted and no email send failed (and, for an email request, the
\* email was sent); every other outcome (missing or malformed contact,
\* existing account, phone contact, insert failure, email failure) is an
\* error body with status 400 or 500.
C5_SuccessOrErrorJson ==
  \A r \in Reqs :
    (req[r].pc = "done" /\ req[r].method # "OPTIONS") =>
      /\ req[r].status \in {200, 400, 500}
      /\ req[r].status = 200 =>
           /\ req[r].body = "success"
           /\ Count(req[r].log, "store") = 1
           /\ ~Has(req[r].log, "emailError")
           /\ req[r].contactType = "email" => Has(req[r].log, "email")
      /\ req[r].status # 200 => req[r].body = "error"
      /\ ( \/ Malformed(req[r])
           \/ req[r].contactType = "phone"
           \/ Has(req[r].log, "userExists")
           \/ Has(req[r].log, "dbError")
           \/ Has(req[r].log, "emailError") ) =>
           req[r].status \in {400, 500}

\* an email request has been answered 200 with success
C5_Witness ==
  \E r \in Reqs :
    /\ req[r].pc = "done" /\ req[r].method = "POST"
    /\ req[r].status = 200 /\ req[r].body = "success"
    /\ req[r].contactType = "email"

\* the send-otp requests that a step of tab t issues
Issued(t) ==
  {r \in Reqs : req[r].pc = "idle" /\ req'[r].pc # "idle" /\ req'[r].owner = t}

\* a step in which handleSubmit or handleResendOTP starts in tab t
HandlerStarts(t) ==
  /\ tab[t].pc = "idle"
  /\ tab'[t] # tab[t]
  /\ \/ tab'[t].pc \in {"submitting", "resending"}
     \/ tab'[t].toast = "ZodError"

\* what one invocation of the edge function may have tried
NoRetryInHandler(r) ==
  /\ Count(r.log, "store") + Count(r.log, "dbError") <= 1
  /\ Count(r.log, "email") + Count(r.log, "emailError") <= 1
  /\ (Has(r.log, "dbError") \/ Has(r.log, "emailError")) =>
       /\ r.pc = "done" /\ r.status = 500 /\ r.body = "error"
       /\ r.log[Len(r.log)] \in {"dbError", "emailError"}

\* C6 as stated: no retry in the handler, and every handleSubmit and every
\* handleResendOTP issues exactly one send-otp request.
C6_ExactlyOneRequest ==
  [][/\ \A r \in Reqs : NoRetryInHandler(req'[r])
     /\ \A t \in {1} : HandlerStarts(t) => Cardinality(Issued(t)) = 1
    ]_vars

\* C6 as amended: no retry in the handler; handleResendOTP issues exactly
\* one request, handleSubmit exactly one when the form passes signupSchema
\* and none when it does not; a response, failed or not, issues none.
C6_NoRetry ==
  [][/\ \A r \in Reqs : NoRetryInHandler(req'[r])
     /\ \A t \in {1} :
          /\ (HandlerStarts(t) /\ tab'[t].pc \in {"submitting", "resending"}) =>
               Cardinality(Issued(t)) = 1
          /\ (HandlerStarts(t) /\ tab'[t].pc = "idle") =>
               (Issued(t) = {} /\ tab[t].page = "signup")
          /\ ~HandlerStarts(t) => Issued(t) = {}
          /\ (tab[t].pc \in {"submitting", "resending"} /\ tab'[t] # tab[t]) =>
               /\ tab'[t].pc = "idle"
               /\ \A r \in Reqs : req'[r].owner # t
          /\ Cardinality({r \in Reqs : req'[r].owner = t}) <= 1
    ]_vars

\* a resend whose email failed is waiting for its error response
C6_Witness ==
  \E r \in Reqs :
    /\ req[r].pc = "done" /\ req[r].owner = 1
    /\ Has(req[r].log, "emailError")
    /\ tab[1].pc = "resending"

(***************************************************************************)
(* Properties of the Itinerary page, checked under SpecItinerary           *)
(***************************************************************************)

\* C7: generateSchedule deals the four time slots out in turn: the activity
\* at position k (from 0) has the start and end of timeSlots[k mod 4], so a
\* schedule of four or more activities uses all four slots.
C7_RoundRobinOverFour ==
  LET s == page.scheduledItinerary
  IN /\ \A k \in 1..Len(s) :
          /\ s[k].startTime = timeSlots[((k - 1) % Len(timeSlots)) + 1].start
          /\ s[k].endTime = timeSlots[((k - 1) % Len(timeSlots)) + 1].end
     /\ Len(s) >= Len(timeSlots) =>
          \A j \in 1..Len(timeSlots) :
            \E k \in 1..Len(s) : s[k].startTime = timeSlots[j].start

\* C10: in every state of the page that generateItinerary and toggleSpot
\* can reach, at most 5 spots are selected.
C10_AtMostFiveSelected ==
  Cardinality(page.selectedSpots) <= MaxSelected

(***************************************************************************)
(* Properties of the dashboard components, checked under SpecDashboard     *)
(***************************************************************************)
NonIncreasing(list) ==
  \A i \in 1..Len(list) : \A j \in 1..Len(list) :
    i < j => list[i].score >= list[j].score

\* no catalogue row outside the list scores strictly higher than one in it
NoneBetterLeftOut(list, scores) ==
  \A i \in 1..Len(tourist_spots) :
    (\A k \in 1..Len(list) : list[k].id # tourist_spots[i].id)
      => \A k \in 1..Len(list) : scores[i] <= list[k].score

\* the list carries each spot with the score the scorer gives it
ScoredBy(list, scores) ==
  \A k \in 1..Len(list) :
    \E i \in 1..Len(tourist_spots) :
      tourist_spots[i].id = list[k].id /\ scores[i] = list[k].score

recScores == [i \in 1..Len(tourist_spots) |-> recScore(tourist_spots[i], preferences)]
feedScores == [i \in 1..Len(tourist_spots) |-> feedScore(tourist_spots[i], preferences)]

\* C8: the spots RecommendedSpots shows (at most 8) and the spots
\* PersonalizedFeed shows (at most 6) are in order of non-increasing score,
\* and no spot left out of a list scores strictly higher than a spot in it.
C8_RankedList ==
  /\ Len(recommended.spots) <= MaxRecommended
  /\ ScoredBy(recommended.spots, recScores)
  /\ NonIncreasing(recommended.spots)
  /\ NoneBetterLeftOut(recommended.spots, recScores)
  /\ Len(feed.spots) <= MaxFeed
  /\ ScoredBy(feed.spots, feedScores)
  /\ NonIncreasing(feed.spots)
  /\ NoneBetterLeftOut(feed.spots, feedScores)

\* both lists are full, each leaves out a spot that the scorer rated, and
\* each holds spots of different scores
C8_Witness ==
  /\ Len(recommended.spots) = MaxRecommended
  /\ Len(tourist_spots) > MaxRecommended
  /\ recommended.spots[1].score > recommended.spots[MaxRecommended].score
  /\ Len(feed.spots) = MaxFeed
  /\ feed.spots[1].score > feed.spots[MaxFeed].score
  /\ \E i \in 1..Len(tourist_spots) :
       /\ feedScores[i] > 0
       /\ \A k \in 1..Len(feed.spots) : feed.spots[k].id # tourist_spots[i].id

\* C9: whenever a backend call of the client returns an error, the step
\* that handles it shows a toast or an alert.
C9_EveryFailureNotified ==
  notice.failed # "none" => notice.toast # "none"

\* C11: generateSchedule with fewer than 3 selected spots leaves
\* scheduledItinerary as it is, and every schedule that is not empty has
\* between 3 and 5 activities.
C11_ScheduleFromThreeToFive ==
  /\ Cardinality(page.selectedSpots) < MinSelected
       => generateScheduleHandler.page.scheduledItinerary = page.scheduledItinerary
  /\ Len(page.scheduledItinerary) # 0
       => /\ Len(page.scheduledItinerary) >= MinSelected
          /\ Len(page.scheduledItinerary) <= MaxSelected

\* a schedule of 5 activities stands while more than 5 spots are selected
C11_Witness ==
  /\ Len(page.scheduledItinerary) = MaxSelected
  /\ Cardinality(page.selectedSpots) > MaxSelected

\* no send-otp request is between its arrival and its response
AllCompleted == \A r \in Reqs : req[r].pc \in {"idle", "done"}

\* C12: once every send-otp request has completed, temp_otps holds at most
\* one unverified row for each contact.
C12_AtMostOneUnverified ==
  AllCompleted =>
    \A c \in {EmailA, EmailB, PhoneOK} : Cardinality(Unverified(c)) <= 1

\* the events by which a request generates a code, touches temp_otps or mails
OtpEvents == {"generate", "delete", "store", "email"}

\* the contact is the email or the phone of an auth user
BelongsToUser(contact) ==
  \E u \in users : contact \in {u.email, u.phone}

C14_RejectedLeavesTable ==
  \A r \in Reqs :
    (req[r].pc = "done" /\ req[r].method = "POST" /\ req[r].status # 200) =>
      /\ ~Has(req[r].log, "store")
      /\ ~Has(req[r].log, "removed")

\* C16: whenever scheduledItinerary is not empty, its spots are exactly the
\* selected spots (selectedSpots restricted to recommendedSpots).
C16_ScheduleMatchesSelection ==
  Len(page.scheduledItinerary) # 0 =>
    {page.scheduledItinerary[k].spot : k \in 1..Len(page.scheduledItinerary)}
      = page.selectedSpots \cap Range(page.recommendedSpots)

\* the place of a spot among the recommendations
Position(spotId) ==
  CHOOSE k \in 1..Len(page.recommendedSpots) : page.recommendedSpots[k] = spotId

\* the schedule acts of n activities has two activities to a day
TwoPerDay(acts, n) ==
  /\ Len(acts) = n
  /\ \A i \in 0..(n - 1) : acts[i + 1].day = (i \div 2) + 1
  /\ {acts[k].day : k \in 1..n} = 1..((n + 1) \div 2)
  /\ \A d \in 1..n : Cardinality({k \in 1..n : acts[k].day = d}) <= 2

\* the schedule acts holds the selected spots in the order of the recommendations
InOrder(acts) ==
  /\ {acts[k].spot : k \in 1..Len(acts)}
       = page.selectedSpots \cap Range(page.recommendedSpots)
  /\ \A j \in 1..Len(acts) : \A k \in 1..Len(acts) :
       j < k => Position(acts[j].spot) < Position(acts[k].spot)

\* C17: the schedule that generateSchedule builds from n selected spots gives
\* the activity at position i (from 0) the day floor(i/2)+1, so the days used
\* are exactly 1..ceil(n/2) and no day has more than two activities, and the
\* activities keep the order of recommendedSpots; every schedule on the page
\* has that division into days.
C17_TwoSpotsPerDay ==
  /\ Cardinality(page.selectedSpots) >= MinSelected =>
       LET acts == generateScheduleHandler.page.scheduledItinerary
       IN /\ TwoPerDay(acts, Cardinality(page.selectedSpots
                                           \cap Range(page.recommendedSpots)))
          /\ InOrder(acts)
  /\ TwoPerDay(page.scheduledItinerary, Len(page.scheduledItinerary))

\* five selected spots have been scheduled over three days
C17_Witness ==
  /\ Len(page.scheduledItinerary) = MaxSelected
  /\ page.scheduledItinerary = generateScheduleHandler.page.scheduledItinerary
  /\ page.scheduledItinerary[MaxSelected].day = 3

\* an itinerary row that carries a user and a schedule
Saveable(row) ==
  /\ row.user_id = userId
  /\ Len(row.route.schedule) # 0

\* C18: saveItinerary sends an insert only with a session user and a schedule
\* that is not empty; when either is missing the handler changes nothing (no
\* insert, no navigation, isSaving false); and while an insert is in flight
\* the Save button starts no other.
C18_SaveGuards ==
  [][/\ (page.session = "none" \/ Len(page.scheduledItinerary) = 0) =>
          /\ saveItineraryHandler.page = page
          /\ ~page.isSaving => (~page'.isSaving /\ itineraries' = itineraries
                                  /\ page'.route # "dashboard")
     /\ (~page.isSaving /\ page'.isSaving) =>
          /\ page'.inserting # NoItinerary
          /\ Saveable(page'.inserting)
          /\ page.session = userId /\ Len(page.scheduledItinerary) # 0
     /\ itineraries' # itineraries =>
          /\ page.isSaving
          /\ itineraries' = Append(itineraries,
               [page.inserting EXCEPT !.id = Len(itineraries) + 1])
          /\ Saveable(page.inserting)
     /\ (page.isSaving /\ page'.isSaving) => page'.inserting = page.inserting
    ]_vars

\* the insert of a five-activity schedule is in flight
C18_Witness ==
  /\ page.isSaving
  /\ Saveable(page.inserting)
  /\ Len(page.inserting.route.schedule) = MaxSelected

\* Save is on the page before the session has been read
C18_WitnessNoSession ==
  /\ page.session = "none"
  /\ page.route = "itinerary"
  /\ Len(page.scheduledItinerary) # 0

\* no addToItinerary call and no auto-add loop is under way
CallsCompleted ==
  /\ \A c \in AllCalls : calls[c].pc = "idle"
  /\ feed.auto.pc = "idle"

\* C19: once every addToItinerary call has completed, every item in
\* addedToItinerary is among the spots of the user's latest itinerary.
C19_NoLostUpdate ==
  CallsCompleted =>
    \A item \in feed.addedToItinerary : item \in Range(latestItinerary.spots)

\* the municipality values a spot can carry
AllMunicipalities ==
  {Bacacay, Malilipot, Malinao, SantoDomingo, Tiwi, Tabaco, Legazpi, Camalig,
   Daraga, Manito, RapuRapu, Guinobatan, Ligao, Oas, PioDuran, Polangui,
   Jovellar, LegazpiCity, TabacoCity}

\* C20: for every district of the user's preferences (District 1, 2 or 3) and
\* every municipality, RecommendedSpots and PersonalizedFeed give the same
\* answer to whether a spot of that municipality lies in that district.
C20_DistrictMatchersAgree ==
  \A d \in Range(preferences.districts) : \A municipality \in AllMunicipalities :
    recInDistrict(municipality, d) = feedInDistrict(municipality, d)

(***************************************************************************)
(* Properties of the signup_data entry, checked under SpecSignup           *)
(***************************************************************************)
\* a step of the tab in which handleVerifyOTP ends in its catch block
VerifyFails(t) ==
  /\ tab[t].pc \in {"select", "signUp"}
  /\ tab'[t].pc = "idle"

\* C15: signup_data is written only by handleSubmit after an ok response and
\* removed only by a successful verification or by Back to Sign Up; a
\* successful handleVerifyOTP removes it, a failed one leaves it in place, and
\* VerifyOTP without signup_data goes to /signup and never queries temp_otps.
C15_SignupDataLifetime ==
  [][\A t \in {1} :
       /\ (tab'[t].storage # tab[t].storage /\ tab'[t].storage # NoData) =>
            /\ tab[t].pc = "submitting"
            /\ req[tab[t].rq].pc = "done" /\ ok(req[tab[t].rq])
            /\ tab'[t].storage = tab[t].form
       /\ (tab'[t].storage # tab[t].storage /\ tab'[t].storage = NoData) =>
            \/ tab[t].pc = "update"
            \/ tab[t].page = "verify" /\ tab[t].pc = "idle" /\ tab'[t].page = "signup"
       /\ (tab[t].pc = "update" /\ tab'[t] # tab[t]) =>
            (tab'[t].storage = NoData /\ tab'[t].page = "dashboard")
       /\ VerifyFails(t) =>
            (tab'[t].storage = tab[t].storage /\ tab[t].storage # NoData)
       /\ (tab[t].storage = NoData /\ tab[t].pc = "idle") =>
            /\ tab'[t].page # "verify" \/ tab'[t].storage # NoData
            /\ tab'[t].pc \notin {"select", "signUp", "update"}
    ]_vars

\* a verification has failed on the expiry test and signup_data is still there
C15_Witness ==
  /\ tab[1].toast = "Verification code has expired"
  /\ tab[1].page = "verify"
  /\ tab[1].storage # NoData
====
